---------------------------- MODULE Spec2Model ----------------------------
(***************************************************************************)
(* Edge routing of custom domains to workspaces (spanDevOps/cusdomaino).   *)
(*                                                                         *)
(* Three deployments of the repository are modelled:                       *)
(*   "index": the single caching Lambda@Edge function of src/index.mjs,    *)
(*            which resolves the host (cache, then DynamoDB) and rewrites  *)
(*            path, Host and origin in one step;                           *)
(*   "edge":  the two functions of src/lambda-functions: domain-mapper-    *)
(*            edge on viewer-request, whose returned request CloudFront    *)
(*            hands to origin-request-edge on origin-request;              *)
(*   "part_000": domain-mapper-edge with the origin-request handler of     *)
(*            src/unnamed/part_000 in the place of origin-request-edge.    *)
(* JavaScript strings are sequences of one-character strings, so that      *)
(* toLowerCase, includes, endsWith, split, startsWith, the regular         *)
(* expression and the template literals are computed as the code computes  *)
(* them.  A Lambda runtime instance handles one event at a time; a         *)
(* handler runs atomically up to its await of dynamoDB.getItem.            *)
(***************************************************************************)
EXTENDS Integers, Sequences, FiniteSets, TLC

VARIABLES deployment, store, changedAt, now, cache, provenance, inv, inv2, hist

vars == <<deployment, store, changedAt, now, cache, provenance, inv, inv2, hist>>

---------------------------------------------------------------------------
(* Bounds of the model.                                                    *)
MaxTicks == 3
TickMs == 150000

(* Program constants.                                                      *)
CACHE_TTL == 300000

---------------------------------------------------------------------------
(* String literals of the code.                                            *)
AmplifyPattern == <<"a", "m", "p", "l", "i", "f", "y", "a", "p", "p", ".", "c", "o", "m">>
VeAiSuffix == <<"v", "e", ".", "a", "i">>
newDomain == <<"m", "a", "s", "t", "e", "r", ".", "d", "1", "u", "l", "4", "6", "8", "m", "u", "q", "9", "d", "v", "s", ".", "a", "m", "p", "l", "i", "f", "y", "a", "p", "p", ".", "c", "o", "m">>
IndexHtml == <<"i", "n", "d", "e", "x", ".", "h", "t", "m", "l">>

WorkspacePrefix == <<"/", "w", "o", "r", "k", "s", "p", "a", "c", "e", "-">>
Digits == {"0", "1", "2", "3", "4", "5", "6", "7", "8", "9"}

(* JavaScript's undefined and null, and undefined as a template literal    *)
(* prints it.                                                              *)
Undefined == <<"<undefined>">>
Null == <<"<null>">>
UndefinedText == <<"u", "n", "d", "e", "f", "i", "n", "e", "d">>

---------------------------------------------------------------------------
(* String operations.                                                      *)
LowerOf(c) ==
  CASE c = "A" -> "a" [] c = "B" -> "b" [] c = "C" -> "c" [] c = "D" -> "d"
    [] c = "E" -> "e" [] c = "F" -> "f" [] c = "G" -> "g" [] c = "H" -> "h"
    [] c = "I" -> "i" [] c = "J" -> "j" [] c = "K" -> "k" [] c = "L" -> "l"
    [] c = "M" -> "m" [] c = "N" -> "n" [] c = "O" -> "o" [] c = "P" -> "p"
    [] c = "Q" -> "q" [] c = "R" -> "r" [] c = "S" -> "s" [] c = "T" -> "t"
    [] c = "U" -> "u" [] c = "V" -> "v" [] c = "W" -> "w" [] c = "X" -> "x"
    [] c = "Y" -> "y" [] c = "Z" -> "z" [] OTHER -> c

toLowerCase(s) == [i \in 1..Len(s) |-> LowerOf(s[i])]

includes(s, sub) ==
  \E i \in 0..(Len(s) - Len(sub)) : SubSeq(s, i + 1, i + Len(sub)) = sub

startsWith(s, p) == Len(s) >= Len(p) /\ SubSeq(s, 1, Len(p)) = p

endsWith(s, p) == Len(s) >= Len(p) /\ SubSeq(s, Len(s) - Len(p) + 1, Len(s)) = p

RECURSIVE split(_, _)
split(s, c) ==
  IF \A i \in 1..Len(s) : s[i] # c
  THEN <<s>>
  ELSE LET i == CHOOSE k \in 1..Len(s) :
                  s[k] = c /\ \A j \in 1..(k - 1) : s[j] # c
       IN <<SubSeq(s, 1, i - 1)>> \o split(SubSeq(s, i + 1, Len(s)), c)

(* parts[i] with JavaScript's 0-based index: undefined past the end.       *)
At(parts, i) == IF i + 1 <= Len(parts) THEN parts[i + 1] ELSE Undefined

(* ${v} in a template literal.                                             *)
Template(v) == IF v = Undefined THEN UndefinedText ELSE v

(* A value in a condition: undefined, null and the empty string are falsy. *)
Truthy(v) == v # Undefined /\ v # Null /\ v # << >>

(* requestUri.match(/^\/workspace-\d+/)                                    *)
workspaceMatch(requestUri) ==
  /\ startsWith(requestUri, WorkspacePrefix)
  /\ Len(requestUri) > Len(WorkspacePrefix)
  /\ requestUri[Len(WorkspacePrefix) + 1] \in Digits

---------------------------------------------------------------------------
(* Inputs: the hostnames, workspace ids and paths the repository's own     *)
(* documents use.                                                          *)
HostGallery == <<"g", "a", "l", "l", "e", "r", "y", ".", "d", "e", "v", "o", "p", "s", "i", "f", "y", ".", "s", "h", "o", "p">>
HostGalleryMixed == <<"G", "a", "l", "l", "e", "r", "y", ".", "D", "e", "v", "o", "p", "s", "i", "f", "y", ".", "S", "H", "O", "P">>
HostUnknown == <<"u", "n", "k", "n", "o", "w", "n", ".", "d", "e", "v", "o", "p", "s", "i", "f", "y", ".", "s", "h", "o", "p">>
HostClient == <<"g", "a", "l", "l", "e", "r", "y", ".", "c", "l", "i", "e", "n", "t", ".", "c", "o", "m">>
HostAmplify == <<"m", "a", "s", "t", "e", "r", ".", "d", "1", "u", "l", "4", "6", "8", "m", "u", "q", "9", "d", "v", "s", ".", "a", "m", "p", "l", "i", "f", "y", "a", "p", "p", ".", "c", "o", "m">>
HostAmplifyMixed == <<"W", "o", "r", "k", "s", "p", "a", "c", "e", "-", "1", ".", "a", "b", "c", "1", "2", "3", ".", "A", "m", "p", "l", "i", "f", "y", "A", "p", "p", ".", "c", "o", "m">>
HostVeAi == <<"w", "o", "r", "k", "s", "p", "a", "c", "e", "-", "1", ".", "v", "e", ".", "a", "i">>
HostVeAiUpper == <<"W", "o", "r", "k", "s", "p", "a", "c", "e", "-", "2", ".", "V", "E", ".", "A", "I">>
HostAmplifyLookalike == <<"a", "m", "p", "l", "i", "f", "y", "a", "p", "p", ".", "c", "o", "m", ".", "a", "t", "t", "a", "c", "k", "e", "r", ".", "n", "e", "t">>
HostEvil == <<"e", "v", "i", "l", ".", "a", "t", "t", "a", "c", "k", "e", "r", ".", "n", "e", "t">>
WsOne == <<"w", "o", "r", "k", "s", "p", "a", "c", "e", "-", "1">>
WsTwo == <<"w", "o", "r", "k", "s", "p", "a", "c", "e", "-", "2">>
WsSpandan == <<"s", "p", "a", "n", "d", "a", "n", "t", "e", "s", "t">>
UriRoot == <<"/">>
UriDashboard == <<"/", "d", "a", "s", "h", "b", "o", "a", "r", "d">>
UriNoSlash == <<"d", "a", "s", "h", "b", "o", "a", "r", "d">>
UriWorkspace == <<"/", "w", "o", "r", "k", "s", "p", "a", "c", "e", "-", "2", "/", "i", "m", "g">>

(* The domain-workspace-mappings table: the Item getItem returns for a     *)
(* key; workspaceId and status are the .S of the attributes, Undefined     *)
(* when the attribute is missing.                                          *)
NoItem == [exists |-> FALSE, workspaceId |-> Undefined, status |-> "undefined"]

ActiveItem(w) == [exists |-> TRUE, workspaceId |-> w, status |-> "active"]

(* Records that are no active mapping: a status other than active, no      *)
(* status attribute, no workspaceId attribute.                             *)
StatusItem(w, status) == [exists |-> TRUE, workspaceId |-> w, status |-> status]

InactiveItems ==
  { StatusItem(WsOne, "pending_validation"), StatusItem(WsOne, "error"),
    StatusItem(WsOne, "undefined"), StatusItem(Undefined, "active") }

StoreKeys == {HostGallery, HostClient}

StoreConfigs ==
  { [k \in StoreKeys |-> IF k = HostGallery THEN ActiveItem(WsOne)
                                             ELSE ActiveItem(WsSpandan)] }

(* The tables in which the domain of HostUnknown has a record that is no   *)
(* active mapping.                                                         *)
StoreRecords ==
  { [k \in StoreKeys \cup {HostUnknown} |->
       IF k = HostUnknown THEN r ELSE table[k]] :
      table \in StoreConfigs, r \in InactiveItems }

(* The records the dashboard gives the domain of HostGallery over time:    *)
(* activated, moved to another workspace, removed.                         *)
GalleryRecords == { ActiveItem(WsOne), ActiveItem(WsTwo), NoItem }

(* dynamoDB.getItem({Key: {domain: {S: host}}}) when it answers.           *)
getItem(table, host) == IF host \in DOMAIN table THEN table[host] ELSE NoItem

---------------------------------------------------------------------------
(* CloudFront requests: uri, headers (header name -> list of {key,value}), *)
(* and origin.  A header that is absent is not in the domain of headers.   *)
Header(k, v) == <<[key |-> k, value |-> v]>>

NoOrigin == [kind |-> "absent"]

CustomOrigin(domainName) ==
  [kind |-> "custom", domainName |-> domainName, port |-> 443,
   protocol |-> "https", path |-> << >>, sslProtocols |-> <<"TLSv1.2">>,
   readTimeout |-> 30, keepaliveTimeout |-> 5, customHeaders |-> << >>,
   originProtocolPolicy |-> "https-only"]

UserAgent == Header("User-Agent", <<"curl">>)

(* The x-custom-host header as a client can send it: absent (no entry), one *)
(* non-empty value, an empty value, an empty list.                          *)
NoCarrier == [present |-> FALSE, list |-> << >>]

Carrier(list) == [present |-> TRUE, list |-> list]

ClientCarriers ==
  { NoCarrier, Carrier(Header("X-Custom-Host", HostEvil)),
    Carrier(Header("X-Custom-Host", << >>)), Carrier(<< >>) }

ClientHosts ==
  { HostGallery, HostGalleryMixed, HostUnknown, HostClient, HostAmplify,
    HostAmplifyMixed, HostVeAi, HostAmplifyLookalike }

ClientUris == { UriRoot, UriDashboard, UriNoSlash, UriWorkspace }

SetHeader(headers, name, list) ==
  [n \in DOMAIN headers \cup {name} |-> IF n = name THEN list ELSE headers[n]]

DeleteHeader(headers, name) == [n \in DOMAIN headers \ {name} |-> headers[n]]

ClientRequest(host, uri, carrier) ==
  LET base == [n \in {"host", "user-agent"} |->
                 IF n = "host" THEN Header("Host", host) ELSE UserAgent]
  IN [uri |-> uri,
      headers |-> IF carrier.present
                  THEN SetHeader(base, "x-custom-host", carrier.list)
                  ELSE base,
      origin |-> NoOrigin]

(* The event of an invocation: event.Records[0].cf.request                 *)
Event(request) == [request |-> request]

(* An event without Records[0].cf.request.                                 *)
InvalidEvent == [Records |-> << >>]

(* A request without a Host header.                                        *)
NoHostRequest ==
  [uri |-> UriDashboard, headers |-> [n \in {"user-agent"} |-> UserAgent],
   origin |-> NoOrigin]

(* Events the handlers reject: no request, no Host header, an empty Host   *)
(* value.                                                                  *)
MalformedEvents ==
  { InvalidEvent, Event(NoHostRequest),
    Event(ClientRequest(<< >>, UriDashboard, NoCarrier)) }

(* A request for a mapped host whose uri is missing.                       *)
MissingUriEvent == Event(ClientRequest(HostGallery, Undefined, NoCarrier))

EdgeEvents ==
  { Event(ClientRequest(h, u, c)) : h \in ClientHosts, u \in ClientUris, c \in ClientCarriers }
    \cup MalformedEvents \cup { MissingUriEvent }

IndexHosts == { HostGallery, HostGalleryMixed, HostUnknown, HostAmplifyMixed, HostVeAi }

IndexEvents ==
  { Event(ClientRequest(h, UriDashboard, NoCarrier)) : h \in IndexHosts }
    \cup { Event(ClientRequest(HostGallery, UriRoot, NoCarrier)) }
    \cup MalformedEvents

(* request.headers?.[name]?.[0]?.value                                     *)
HeaderValue(request, name) ==
  IF name \in DOMAIN request.headers /\ Len(request.headers[name]) >= 1
  THEN request.headers[name][1].value
  ELSE Undefined

---------------------------------------------------------------------------
(* What a handler returns: the request (forwarded by CloudFront) or a      *)
(* response generated at the edge.                                         *)
Forward(request) == [kind |-> "request", value |-> request]

Respond(response) == [kind |-> "response", value |-> response]

(* The handler's promise rejects: an error leaves the handler.             *)
Throw(error) == [kind |-> "throw", value |-> [name |-> error]]

(* What the synchronous part of a handler ends with: a return, or the      *)
(* await of dynamoDB.getItem for host.                                     *)
Return(result) == [kind |-> "return", result |-> result]

Await(request, host) == [kind |-> "await", request |-> request, host |-> host]

ContentTypePlain == [n \in {"content-type"} |-> Header("Content-Type", <<"text/plain">>)]

InternalServerError(body) ==
  [status |-> "500", statusDescription |-> "Internal Server Error",
   headers |-> ContentTypePlain, body |-> body]

(* The outer catch of the three handlers: an Error has no status.          *)
HandlerError == InternalServerError(<<"An error occurred processing your request">>)

(* The inner catch (dbError) of the two resolvers.                         *)
LookupError ==
  InternalServerError(<<"An error occurred while looking up the domain configuration">>)

(* !event?.Records?.[0]?.cf?.request                                       *)
HasRequest(event) == "request" \in DOMAIN event

---------------------------------------------------------------------------
(* src/index.mjs: the caching resolver.                                    *)
index_createNotFoundResponse(host) ==
  [status |-> "404", statusDescription |-> "Not Found",
   headers |-> ContentTypePlain,
   body |-> <<"Domain ">> \o host \o
            <<" is not configured. Please check your domain settings in the VE.AI dashboard.">>]

(* Lines 149-174: origin, Host and uri are set on the request itself.      *)
index_transform(request, workspaceId) ==
  [uri |-> <<"/">> \o Template(workspaceId) \o request.uri,
   headers |-> SetHeader(request.headers, "host", Header("Host", newDomain)),
   origin |-> CustomOrigin(newDomain)]

CacheEntry(workspaceId, expiry) == [workspaceId |-> workspaceId, expiry |-> expiry]

(* Mutant: an entry is still used in the instant of its expiry.            *)
CacheHit_inclusive(cch, host, t) == host \in DOMAIN cch /\ cch[host].expiry >= t

(* Mutant: the comparison of the cache test inverted.                      *)
CacheHit_inverted(cch, host, t) == host \in DOMAIN cch /\ cch[host].expiry < t

(* cache[host] && cache[host].expiry > Date.now()                          *)
CacheHit(cch, host, t) == host \in DOMAIN cch /\ cch[host].expiry > t

(* Mutant: the cache and the table are consulted with the Host value as it *)
(* came, before it is lowercased.                                          *)
index_handler_sync_rawKey(event, cch, t) ==
  IF ~HasRequest(event) THEN Return(Respond(HandlerError))
  ELSE IF ~Truthy(HeaderValue(event.request, "host")) THEN Return(Respond(HandlerError))
  ELSE
    LET request == event.request
        raw == HeaderValue(request, "host")
        host == toLowerCase(raw)
    IN IF includes(host, AmplifyPattern) THEN Return(Forward(request))
       ELSE IF endsWith(host, VeAiSuffix)
         THEN Return(Forward(index_transform(request, At(split(host, "."), 0))))
       ELSE IF CacheHit(cch, raw, t)
         THEN IF Truthy(cch[raw].workspaceId)
              THEN Return(Forward(index_transform(request, cch[raw].workspaceId)))
              ELSE Return(Respond(index_createNotFoundResponse(host)))
       ELSE Await(request, raw)

(* Mutant: the cache is looked at under the Host value as it came; the     *)
(* table is asked with the lowercased one.                                 *)
index_handler_sync_rawCacheKey(event, cch, t) ==
  IF ~HasRequest(event) THEN Return(Respond(HandlerError))
  ELSE IF ~Truthy(HeaderValue(event.request, "host")) THEN Return(Respond(HandlerError))
  ELSE
    LET request == event.request
        raw == HeaderValue(request, "host")
        host == toLowerCase(raw)
    IN IF includes(host, AmplifyPattern) THEN Return(Forward(request))
       ELSE IF endsWith(host, VeAiSuffix)
         THEN Return(Forward(index_transform(request, At(split(host, "."), 0))))
       ELSE IF CacheHit(cch, raw, t)
         THEN IF Truthy(cch[raw].workspaceId)
              THEN Return(Forward(index_transform(request, cch[raw].workspaceId)))
              ELSE Return(Respond(index_createNotFoundResponse(host)))
       ELSE Await(request, host)

(* Mutant: no branch for ve.ai hosts; they are looked up like custom       *)
(* domains.                                                                *)
index_handler_sync_noVeAiBranch(event, cch, t) ==
  IF ~HasRequest(event) THEN Return(Respond(HandlerError))
  ELSE IF ~Truthy(HeaderValue(event.request, "host")) THEN Return(Respond(HandlerError))
  ELSE
    LET request == event.request
        host == toLowerCase(HeaderValue(request, "host"))
    IN IF includes(host, AmplifyPattern) THEN Return(Forward(request))
       ELSE IF CacheHit(cch, host, t)
         THEN IF Truthy(cch[host].workspaceId)
              THEN Return(Forward(index_transform(request, cch[host].workspaceId)))
              ELSE Return(Respond(index_createNotFoundResponse(host)))
       ELSE Await(request, host)

(* Lines 43-96: up to the await of getItem.                                *)
index_handler_sync(event, cch, t) ==
  IF ~HasRequest(event) THEN Return(Respond(HandlerError))
  ELSE IF ~Truthy(HeaderValue(event.request, "host")) THEN Return(Respond(HandlerError))
  ELSE
    LET request == event.request
        host == toLowerCase(HeaderValue(request, "host"))
    IN IF includes(host, AmplifyPattern) THEN Return(Forward(request))
       ELSE IF endsWith(host, VeAiSuffix)
         THEN Return(Forward(index_transform(request, At(split(host, "."), 0))))
       ELSE IF CacheHit(cch, host, t)
         THEN IF Truthy(cch[host].workspaceId)
              THEN Return(Forward(index_transform(request, cch[host].workspaceId)))
              ELSE Return(Respond(index_createNotFoundResponse(host)))
       ELSE Await(request, host)

(* cache[host] = entry                                                     *)
Put(cch, host, entry) ==
  [k \in DOMAIN cch \cup {host} |-> IF k = host THEN entry ELSE cch[k]]

(* Mutant: only valid mappings are cached, a missing one is not.           *)
index_handler_onItem_positiveOnly(request, host, Item, cch, t) ==
  IF ~Truthy(Item.workspaceId) \/ Item.status # "active"
  THEN [cache |-> cch,
        result |-> Respond(index_createNotFoundResponse(host))]
  ELSE [cache |-> Put(cch, host, CacheEntry(Item.workspaceId, t + CACHE_TTL)),
        result |-> Forward(index_transform(request, Item.workspaceId))]

(* Mutant: the status of the record is not looked at.                     *)
index_handler_onItem_statusIgnored(request, host, Item, cch, t) ==
  IF ~Truthy(Item.workspaceId)
  THEN [cache |-> Put(cch, host, CacheEntry(Null, t + CACHE_TTL)),
        result |-> Respond(index_createNotFoundResponse(host))]
  ELSE [cache |-> Put(cch, host, CacheEntry(Item.workspaceId, t + CACHE_TTL)),
        result |-> Forward(index_transform(request, Item.workspaceId))]

(* Mutant: the entry for a missing mapping takes the workspace value of    *)
(* the record, which is not set, in place of null.                         *)
index_handler_onItem_unsetWorkspace(request, host, Item, cch, t) ==
  IF ~Truthy(Item.workspaceId) \/ Item.status # "active"
  THEN [cache |-> Put(cch, host, CacheEntry(Undefined, t + CACHE_TTL)),
        result |-> Respond(index_createNotFoundResponse(host))]
  ELSE [cache |-> Put(cch, host, CacheEntry(Item.workspaceId, t + CACHE_TTL)),
        result |-> Forward(index_transform(request, Item.workspaceId))]

(* Mutant: a missing mapping is remembered for a fifth of the time of a    *)
(* valid one.                                                              *)
index_handler_onItem_shortNegative(request, host, Item, cch, t) ==
  IF ~Truthy(Item.workspaceId) \/ Item.status # "active"
  THEN [cache |-> Put(cch, host, CacheEntry(Null, t + (CACHE_TTL \div 5))),
        result |-> Respond(index_createNotFoundResponse(host))]
  ELSE [cache |-> Put(cch, host, CacheEntry(Item.workspaceId, t + CACHE_TTL)),
        result |-> Forward(index_transform(request, Item.workspaceId))]

(* Lines 96-124 and 149-174: getItem answered with Item at time t; cache   *)
(* is the cache object after the handler returned.                         *)
index_handler_onItem(request, host, Item, cch, t) ==
  IF ~Truthy(Item.workspaceId) \/ Item.status # "active"
  THEN [cache |-> Put(cch, host, CacheEntry(Null, t + CACHE_TTL)),
        result |-> Respond(index_createNotFoundResponse(host))]
  ELSE [cache |-> Put(cch, host, CacheEntry(Item.workspaceId, t + CACHE_TTL)),
        result |-> Forward(index_transform(request, Item.workspaceId))]

(* Mutant: a failed lookup is remembered as "not configured".              *)
index_handler_onError_negativeCache(host, cch, t) ==
  [cache |-> Put(cch, host, CacheEntry(Null, t + CACHE_TTL)),
   result |-> Respond(LookupError)]

(* Mutant: the caught error's message becomes the body of the 500.         *)
index_handler_onError_messageInBody(host, cch, t) ==
  [cache |-> cch,
   result |-> Respond(InternalServerError(
                <<"ResourceNotFoundException: table domain-mappings, key ">> \o host))]

(* Mutant: when the table fails, an entry the host has (expired as it is)  *)
(* is given a new life.                                                    *)
index_handler_onError_refreshes(host, cch, t) ==
  [cache |-> IF host \in DOMAIN cch
             THEN Put(cch, host, CacheEntry(cch[host].workspaceId, t + CACHE_TTL))
             ELSE cch,
   result |-> Respond(LookupError)]

(* Lines 125-145: getItem threw.                                           *)
index_handler_onError(host, cch, t) ==
  [cache |-> cch, result |-> Respond(LookupError)]

---------------------------------------------------------------------------
(* src/unnamed/part_001, lines 185-227: transformRequest of the            *)
(* single-stage resolver, for a request whose uri is a string (line 189    *)
(* throws on a missing uri).                                               *)
transformRequest(request, workspaceId) ==
  LET requestUri == IF startsWith(request.uri, <<"/">>) THEN request.uri
                    ELSE <<"/">> \o request.uri
      newUri == IF requestUri = <<"/">>
                THEN <<"/">> \o Template(workspaceId) \o <<"/">>
                ELSE <<"/">> \o Template(workspaceId) \o requestUri
  IN [uri |-> newUri,
      headers |-> SetHeader(request.headers, "host", Header("Host", newDomain)),
      origin |-> CustomOrigin(newDomain)]

(* src/unnamed/part_001, lines 229-242.                                    *)
part001_createNotFoundResponse(host) ==
  [status |-> "404", statusDescription |-> "Not Found",
   headers |-> ContentTypePlain,
   body |-> <<"Domain ">> \o host \o <<" is not configured">>]

(* Mutant: the cached workspace is applied by plain concatenation, not by  *)
(* transformRequest.                                                       *)
part001_handler_sync_plainHit(event, cch, t) ==
  IF ~HasRequest(event) THEN Return(Respond(HandlerError))
  ELSE IF ~Truthy(HeaderValue(event.request, "host")) THEN Return(Respond(HandlerError))
  ELSE
    LET request == event.request
        host == toLowerCase(HeaderValue(request, "host"))
    IN IF includes(host, AmplifyPattern) THEN Return(Forward(request))
       ELSE IF CacheHit(cch, host, t)
         THEN IF ~Truthy(cch[host].workspaceId)
              THEN Return(Respond(part001_createNotFoundResponse(host)))
              ELSE Return(Forward(index_transform(request, cch[host].workspaceId)))
       ELSE Await(request, host)

(* src/unnamed/part_001, lines 42-84: the handler of the single-stage      *)
(* resolver up to its return or its await of getItem.  A request without a *)
(* uri makes transformRequest throw (line 189); on the hit path the outer  *)
(* catch answers.                                                          *)
part001_handler_sync(event, cch, t) ==
  IF ~HasRequest(event) THEN Return(Respond(HandlerError))
  ELSE IF ~Truthy(HeaderValue(event.request, "host")) THEN Return(Respond(HandlerError))
  ELSE
    LET request == event.request
        host == toLowerCase(HeaderValue(request, "host"))
    IN IF includes(host, AmplifyPattern) THEN Return(Forward(request))
       ELSE IF CacheHit(cch, host, t)
         THEN IF ~Truthy(cch[host].workspaceId)
              THEN Return(Respond(part001_createNotFoundResponse(host)))
              ELSE IF request.uri = Undefined THEN Return(Respond(HandlerError))
              ELSE Return(Forward(transformRequest(request, cch[host].workspaceId)))
       ELSE Await(request, host)

(* Lines 95-135: getItem answered with Item at time t.  The cache is       *)
(* written before transformRequest is called, inside the inner try.        *)
part001_handler_onItem(request, host, Item, cch, t) ==
  IF ~Item.exists \/ ~Truthy(Item.workspaceId) \/ Item.status # "active"
  THEN [cache |-> Put(cch, host, CacheEntry(Null, t + CACHE_TTL)),
        result |-> Respond(part001_createNotFoundResponse(host))]
  ELSE [cache |-> Put(cch, host, CacheEntry(Item.workspaceId, t + CACHE_TTL)),
        result |-> IF request.uri = Undefined THEN Respond(LookupError)
                   ELSE Forward(transformRequest(request, Item.workspaceId))]

---------------------------------------------------------------------------
(* src/lambda-functions/domain-mapper-edge/index.mjs: the viewer-request   *)
(* Resolver/Rewriter.                                                      *)
mapper_createNotFoundResponse(host) ==
  [status |-> "404", statusDescription |-> "Not Found",
   headers |-> ContentTypePlain,
   body |-> <<"Domain ">> \o host \o <<" is not configured">>]

(* Mutant: the host is matched without being lowercased.                   *)
mapper_handler_sync_caseSensitive(event) ==
  IF ~HasRequest(event) THEN Return(Respond(HandlerError))
  ELSE IF ~Truthy(HeaderValue(event.request, "host")) THEN Return(Respond(HandlerError))
  ELSE
    LET request == event.request
        host == HeaderValue(request, "host")
    IN IF includes(host, AmplifyPattern) THEN Return(Forward(request))
       ELSE Await(request, toLowerCase(host))

(* Lines 39-81: up to the await of getItem.                                *)
mapper_handler_sync(event) ==
  IF ~HasRequest(event) THEN Return(Respond(HandlerError))
  ELSE IF ~Truthy(HeaderValue(event.request, "host")) THEN Return(Respond(HandlerError))
  ELSE
    LET request == event.request
        host == toLowerCase(HeaderValue(request, "host"))
    IN IF includes(host, AmplifyPattern) THEN Return(Forward(request))
       ELSE Await(request, host)

(* Mutant: the workspace segment is prepended whatever the path begins     *)
(* with.                                                                   *)
mapper_uri_alwaysPrepends(request, workspaceId) ==
  LET requestUri == IF startsWith(request.uri, <<"/">>) THEN request.uri
                    ELSE <<"/">> \o request.uri
      workspaceNumber == At(split(workspaceId, "-"), 1)
  IN WorkspacePrefix \o Template(workspaceNumber) \o
       (IF requestUri = <<"/">> THEN << >> ELSE requestUri)

(* Lines 104-113: the path of the transformed request.                     *)
mapper_uri(request, workspaceId) ==
  LET requestUri == IF startsWith(request.uri, <<"/">>) THEN request.uri
                    ELSE <<"/">> \o request.uri
      workspaceNumber == At(split(workspaceId, "-"), 1)
  IN IF workspaceMatch(requestUri) THEN requestUri
     ELSE WorkspacePrefix \o Template(workspaceNumber) \o
          (IF requestUri = <<"/">> THEN << >> ELSE requestUri)

(* Mutant: x-debug-original-uri is given the transformed path.             *)
mapper_headers_transformedUri(request, workspaceId) ==
  SetHeader(
    SetHeader(
      SetHeader(request.headers, "x-custom-host", Header("X-Custom-Host", newDomain)),
      "x-debug-workspace", Header("X-Debug-Workspace", workspaceId)),
    "x-debug-original-uri", Header("X-Debug-Original-Uri", mapper_uri(request, workspaceId)))

(* Lines 122-146: the carrier and the debug headers of the copy.           *)
mapper_headers(request, workspaceId) ==
  SetHeader(
    SetHeader(
      SetHeader(request.headers, "x-custom-host", Header("X-Custom-Host", newDomain)),
      "x-debug-workspace", Header("X-Debug-Workspace", workspaceId)),
    "x-debug-original-uri", Header("X-Debug-Original-Uri", request.uri))

(* Mutant: a host without a record is served from a default workspace.    *)
mapper_handler_onItem_defaultWorkspace(request, host, Item) ==
  IF Item.exists /\ (~Truthy(Item.workspaceId) \/ Item.status # "active")
  THEN Respond(mapper_createNotFoundResponse(host))
  ELSE IF request.uri = Undefined THEN Respond(LookupError)
  ELSE LET workspaceId == IF Item.exists THEN Item.workspaceId ELSE WsOne
       IN Forward([uri |-> mapper_uri(request, workspaceId),
                   headers |-> mapper_headers(request, workspaceId),
                   origin |-> request.origin])

(* Lines 81-169: getItem answered with Item.  request.uri.startsWith of a  *)
(* missing uri (line 105) throws a TypeError inside the try of getItem,    *)
(* which the catch (dbError) of lines 149-169 answers.                     *)
mapper_handler_onItem(request, host, Item) ==
  IF ~Item.exists \/ ~Truthy(Item.workspaceId) \/ Item.status # "active"
  THEN Respond(mapper_createNotFoundResponse(host))
  ELSE IF request.uri = Undefined THEN Respond(LookupError)
  ELSE Forward([uri |-> mapper_uri(request, Item.workspaceId),
                headers |-> mapper_headers(request, Item.workspaceId),
                origin |-> request.origin])

(* Lines 149-169: getItem threw.                                           *)
mapper_handler_onError == Respond(LookupError)

---------------------------------------------------------------------------
(* src/lambda-functions/origin-request-edge/index.mjs: the Origin          *)
(* Finalizer.                                                              *)
(* Mutant: the carrier is removed but the Host header is not set.          *)
origin_handler_keepsHost(event) ==
  IF ~HasRequest(event) THEN Respond(HandlerError)
  ELSE
    LET request == event.request
    IN IF Truthy(HeaderValue(request, "x-custom-host"))
       THEN Forward([request EXCEPT !.headers = DeleteHeader(request.headers, "x-custom-host")])
       ELSE Forward(request)

origin_handler(event) ==
  IF ~HasRequest(event) THEN Respond(HandlerError)
  ELSE
    LET request == event.request
    IN IF Truthy(HeaderValue(request, "x-custom-host"))
       THEN Forward([request EXCEPT
              !.headers = DeleteHeader(
                 SetHeader(request.headers, "host",
                           Header("Host", HeaderValue(request, "x-custom-host"))),
                 "x-custom-host")])
       ELSE Forward(request)

---------------------------------------------------------------------------
(* src/unnamed/part_000: the other origin-request handler of the           *)
(* repository.                                                             *)
(* Lines 38-42: the debug values put in x-amz-meta-debug.                  *)
debugInfo(request) ==
  <<HeaderValue(request, "x-debug-workspace"),
    HeaderValue(request, "x-debug-original-uri"),
    HeaderValue(request, "x-debug-transformed-uri")>>

(* Lines 53-58: the catch returns request, a const of the try block that   *)
(* is not in scope in the catch block, so the return itself throws.        *)
part000_catch == Throw("ReferenceError")

part000_handler(event) ==
  IF ~HasRequest(event) THEN part000_catch
  ELSE
    LET request == event.request
        present == "x-custom-host" \in DOMAIN request.headers
    IN IF present /\ Len(request.headers["x-custom-host"]) = 0 THEN part000_catch
       ELSE IF request.uri = Undefined THEN part000_catch
       ELSE
         LET renamed ==
               IF present
               THEN [request EXCEPT
                      !.headers = DeleteHeader(
                         SetHeader(request.headers, "host",
                           Header("Host", request.headers["x-custom-host"][1].value)),
                         "x-custom-host")]
               ELSE request
         IN IF endsWith(request.uri, <<"/">>) \/ endsWith(request.uri, IndexHtml)
            THEN Forward([renamed EXCEPT
                   !.headers = SetHeader(renamed.headers, "x-amz-meta-debug",
                                 Header("X-Amz-Meta-Debug", debugInfo(renamed)))])
            ELSE Forward(renamed)

---------------------------------------------------------------------------
(* The state machine.                                                      *)
(*   deployment  which functions are deployed: "index", "edge", or         *)
(*               "part_000" (domain-mapper-edge with the origin-request    *)
(*               handler of src/unnamed/part_000)                          *)
(*   store       the domain-workspace-mappings table                       *)
(*   now         Date.now() of the runtime instance                        *)
(*   cache       the cache object of src/index.mjs: host -> entry          *)
(*   provenance  for each cache entry, the table read it was written from  *)
(*   inv         the invocation awaiting getItem, or Idle                  *)
(*   inv2        a second invocation of src/index.mjs awaiting getItem     *)
(*               while inv does, or Idle                                   *)
(*   hist        the invocation completed last: what it was given, did and *)
(*               returned; in the "edge" deployment the viewer-request     *)
(*               invocation followed by the origin-request invocation on   *)
(*               its result                                                *)
Idle == [fn |-> "idle"]

(* served: the table has read the item for the getItem call; item: what it *)
(* read, on its way back to the handler.                                   *)
Awaiting(fn, event, pending, t) ==
  [fn |-> fn, event |-> event, request |-> pending.request,
   host |-> pending.host, start |-> t, served |-> FALSE, item |-> NoItem,
   readAt |-> t]

(* Where the data of a cache entry comes from: the item read, when the     *)
(* table read it, and when the handler wrote the entry.                    *)
ReadBy(invocation, t) ==
  [item |-> invocation.item, readAt |-> invocation.readAt, writtenAt |-> t]

(* One completed invocation.  lookups: getItem calls issued; answer:       *)
(* "none", "item" or "error", with the Item answered; wrote: the           *)
(* invocation assigned cache[host].                                        *)
Summary(fn, event, host, start, end, lookups, answer, Item, wrote, result) ==
  [fn |-> fn, event |-> event, host |-> host, start |-> start, end |-> end,
   lookups |-> lookups, answer |-> answer, item |-> Item, wrote |-> wrote,
   result |-> result]

(* The normalized host of an event that has one, for the record.           *)
NormalizedHost(event) ==
  IF HasRequest(event) /\ Truthy(HeaderValue(event.request, "host"))
  THEN toLowerCase(HeaderValue(event.request, "host"))
  ELSE Undefined

EdgeDeployments == {"edge", "part_000"}

Deployments == {"index"} \cup EdgeDeployments

(* The origin-request handler that is deployed.                            *)
Finalizer(event) ==
  IF deployment = "edge" THEN origin_handler(event) ELSE part000_handler(event)

Init ==
  /\ deployment \in Deployments
  /\ store \in StoreConfigs
  /\ changedAt = << >>
  /\ now = 0
  /\ cache = << >>
  /\ provenance = << >>
  /\ inv = Idle
  /\ inv2 = Idle
  /\ hist = << >>

(* Time passes.  Only src/index.mjs reads the clock (Date.now() at the     *)
(* cache test and at the cache writes).                                    *)
Tick ==
  /\ deployment = "index"
  /\ now < MaxTicks * TickMs
  /\ now' = now + TickMs
  /\ UNCHANGED <<deployment, provenance, inv2, store, changedAt, cache, inv, hist>>

(* src/index.mjs handler, invoked with an event, up to its return or its   *)
(* await.                                                                  *)
IndexRequest ==
  /\ deployment = "index"
  /\ inv = Idle
  /\ \E event \in IndexEvents :
       LET r == index_handler_sync(event, cache, now)
       IN IF r.kind = "return"
          THEN /\ hist' = <<Summary("index", event, NormalizedHost(event),
                                 now, now, 0, "none", NoItem, FALSE, r.result)>>
               /\ inv' = Idle
          ELSE /\ inv' = Awaiting("index", event, r, now)
               /\ hist' = hist
  /\ UNCHANGED <<deployment, provenance, inv2, store, changedAt, now, cache>>

(* Mutant: the call to the table is one that takes the item away          *)
(* (deleteItem with ReturnValues ALL_OLD) in place of getItem.             *)
GetItemServed_deleteItem ==
  /\ inv.fn \in {"index", "mapper"}
  /\ ~inv.served
  /\ inv' = [inv EXCEPT !.served = TRUE, !.item = getItem(store, inv.host),
                         !.readAt = now]
  /\ store' = [h \in DOMAIN store |-> IF h = inv.host THEN NoItem ELSE store[h]]
  /\ UNCHANGED <<deployment, provenance, inv2, changedAt, now, cache, hist>>

(* The table reads the item of the getItem call in flight; the answer      *)
(* reaches the handler in a later step.                                    *)
GetItemServed ==
  /\ inv.fn \in {"index", "mapper"}
  /\ ~inv.served
  /\ inv' = [inv EXCEPT !.served = TRUE, !.item = getItem(store, inv.host),
                         !.readAt = now]
  /\ UNCHANGED <<deployment, provenance, inv2, store, changedAt, now, cache, hist>>

(* getItem answers the awaiting src/index.mjs handler, which writes the    *)
(* cache and returns.                                                      *)
IndexGetItemReturns ==
  /\ inv.fn = "index"
  /\ inv.served
  /\ LET Item == inv.item
         o == index_handler_onItem(inv.request, inv.host, Item, cache, now)
     IN /\ cache' = o.cache
        /\ provenance' = Put(provenance, inv.host, ReadBy(inv, now))
        /\ hist' = <<Summary("index", inv.event, inv.host, inv.start,
                          now, 1, "item", Item, o.cache # cache, o.result)>>
  /\ inv' = Idle
  /\ UNCHANGED <<deployment, inv2, store, changedAt, now>>

(* getItem throws (store unavailable, timeout of the SDK call).            *)
IndexGetItemThrows ==
  /\ inv.fn = "index"
  /\ LET o == index_handler_onError(inv.host, cache, now)
     IN /\ cache' = o.cache
        /\ hist' = <<Summary("index", inv.event, inv.host, inv.start,
                          now, 1, "error", NoItem, o.cache # cache, o.result)>>
  /\ inv' = Idle
  /\ UNCHANGED <<deployment, provenance, inv2, store, changedAt, now>>

(* CloudFront has a request of the last viewer-request invocation to hand  *)
(* to the origin-request function.                                         *)
OriginPending ==
  /\ hist # << >>
  /\ hist[Len(hist)].fn = "mapper"
  /\ hist[Len(hist)].result.kind = "request"

(* domain-mapper-edge handler on a viewer-request event.                   *)
ViewerRequest ==
  /\ deployment \in EdgeDeployments
  /\ inv = Idle
  /\ ~OriginPending
  /\ \E event \in EdgeEvents :
       LET r == mapper_handler_sync(event)
       IN IF r.kind = "return"
          THEN /\ hist' = <<Summary("mapper", event, NormalizedHost(event),
                              now, now, 0, "none", NoItem, FALSE, r.result)>>
               /\ inv' = Idle
          ELSE /\ inv' = Awaiting("mapper", event, r, now)
               /\ hist' = << >>
  /\ UNCHANGED <<deployment, provenance, inv2, store, changedAt, now, cache>>

MapperGetItemReturns ==
  /\ inv.fn = "mapper"
  /\ inv.served
  /\ LET Item == inv.item
     IN hist' = <<Summary("mapper", inv.event, inv.host, inv.start, now, 1,
                    "item", Item, FALSE,
                    mapper_handler_onItem(inv.request, inv.host, Item))>>
  /\ inv' = Idle
  /\ UNCHANGED <<deployment, provenance, inv2, store, changedAt, now, cache>>

MapperGetItemThrows ==
  /\ inv.fn = "mapper"
  /\ hist' = <<Summary("mapper", inv.event, inv.host, inv.start, now, 1,
                 "error", NoItem, FALSE, mapper_handler_onError)>>
  /\ inv' = Idle
  /\ UNCHANGED <<deployment, provenance, inv2, store, changedAt, now, cache>>

(* origin-request-edge handler on the request the viewer-request function  *)
(* returned.                                                               *)
OriginRequest ==
  /\ deployment \in EdgeDeployments
  /\ inv = Idle
  /\ OriginPending
  /\ LET event == Event(hist[Len(hist)].result.value)
     IN hist' = Append(hist, Summary("origin", event, NormalizedHost(event),
                         now, now, 0, "none", NoItem, FALSE, Finalizer(event)))
  /\ UNCHANGED <<deployment, provenance, inv2, store, changedAt, now, cache, inv>>

(* The origin-request handler invoked with an event that has no request.   *)
OriginMalformed ==
  /\ deployment \in EdgeDeployments
  /\ inv = Idle
  /\ ~OriginPending
  /\ hist' = <<Summary("origin", InvalidEvent, Undefined, now, now, 0,
                        "none", NoItem, FALSE, Finalizer(InvalidEvent))>>
  /\ UNCHANGED <<deployment, provenance, inv2, store, changedAt, now, cache, inv>>

Next ==
  \/ Tick
  \/ IndexRequest
  \/ GetItemServed
  \/ IndexGetItemReturns
  \/ IndexGetItemThrows
  \/ ViewerRequest
  \/ MapperGetItemReturns
  \/ MapperGetItemThrows
  \/ OriginRequest
  \/ OriginMalformed

Spec == Init /\ [][Next]_vars

(* The same functions over the tables of StoreRecords.                     *)
InitRecords ==
  /\ deployment \in Deployments
  /\ store \in StoreRecords
  /\ changedAt = << >>
  /\ now = 0
  /\ cache = << >>
  /\ provenance = << >>
  /\ inv = Idle
  /\ inv2 = Idle
  /\ hist = << >>

SpecRecords == InitRecords /\ [][Next]_vars

(* The same functions over a table in which two domains belong to two      *)
(* workspaces whose identifiers agree in what follows the first hyphen.    *)
WsOneEu == <<"w", "o", "r", "k", "s", "p", "a", "c", "e", "-", "1", "-", "e", "u">>

TenantStore ==
  [k \in StoreKeys |-> IF k = HostGallery THEN ActiveItem(WsOne)
                                            ELSE ActiveItem(WsOneEu)]

InitTenants ==
  /\ deployment \in Deployments
  /\ store = TenantStore
  /\ changedAt = << >>
  /\ now = 0
  /\ cache = << >>
  /\ provenance = << >>
  /\ inv = Idle
  /\ inv2 = Idle
  /\ hist = << >>

SpecTenants == InitTenants /\ [][Next]_vars

(* The dashboard changes the record of HostGallery; changedAt keeps when.  *)
StoreUpdate ==
  /\ \E r \in GalleryRecords \ {store[HostGallery]} :
       store' = [store EXCEPT ![HostGallery] = r]
  /\ changedAt' = Put(changedAt, HostGallery, now)
  /\ UNCHANGED <<deployment, provenance, inv2, now, cache, inv, hist>>

NextStale == Next \/ StoreUpdate

SpecStale == Init /\ [][NextStale]_vars

---------------------------------------------------------------------------
(* Properties.                                                             *)

HostSent(s) ==
  IF HasRequest(s.event) THEN HeaderValue(s.event.request, "host") ELSE Undefined

PlatformHosts == { HostAmplify, HostAmplifyMixed }

(* C1: a request whose lowercased Host contains amplifyapp.com is returned *)
(* by the resolver (src/index.mjs and domain-mapper-edge alike) exactly as *)
(* it came: same path, same Host, same other headers, same origin; the     *)
(* invocation issues no getItem and does not write the cache.              *)
C1_PlatformHostPassesThrough ==
  \A i \in 1..Len(hist) :
    LET s == hist[i]
    IN (s.fn \in {"index", "mapper"} /\ HasRequest(s.event) /\ HostSent(s) \in PlatformHosts)
         => /\ s.result = Forward(s.event.request)
            /\ s.lookups = 0
            /\ ~s.wrote
            /\ s.answer = "none"

C1_Witness ==
  \E i \in 1..Len(hist) :
    /\ hist[i].fn = "mapper"
    /\ HostSent(hist[i]) = HostAmplifyMixed
    /\ "x-custom-host" \in DOMAIN hist[i].event.request.headers
    /\ hist[i].result.kind = "request"

(* A step of the src/index.mjs deployment that completes an invocation b   *)
(* right after the completed invocation a.                                 *)
IndexPair == deployment = "index" /\ hist # << >> /\ hist' # << >> /\ hist' # hist

(* C2: in src/index.mjs, when an invocation looked up an active mapping    *)
(* for a host and wrote the cache, and the next invocation for the same    *)
(* normalized host starts less than CACHE_TTL after that write, the two    *)
(* invocations issue at most one getItem together.                         *)
C2_AtMostOneLookupWithinTTL ==
  [][IndexPair =>
       LET a == hist[1]
           b == hist'[1]
       IN (/\ a.host = b.host
           /\ a.wrote
           /\ a.item.status = "active" /\ Truthy(a.item.workspaceId)
           /\ b.start < a.end + CACHE_TTL)
            => a.lookups + b.lookups <= 1]_vars

C2_Witness ==
  /\ deployment = "index"
  /\ hist # << >>
  /\ hist[1].host = HostGallery
  /\ HostSent(hist[1]) = HostGalleryMixed
  /\ hist[1].lookups = 0
  /\ hist[1].result.kind = "request"
  /\ HostGallery \in DOMAIN cache
  /\ hist[1].start > cache[HostGallery].expiry - CACHE_TTL
  /\ hist[1].start < cache[HostGallery].expiry

(* C3: in src/index.mjs, after an invocation answered 404 for a host, the  *)
(* next invocation for the same host that starts within the TTL window     *)
(* (less than CACHE_TTL after the lookup of the first, or, when the first  *)
(* was itself answered from the cache, before the expiry of that entry)    *)
(* issues no getItem and returns the same response (status, headers and    *)
(* body).                                                                  *)
C3_NegativeEntrySuppressesLookup ==
  [][IndexPair =>
       LET a == hist[1]
           b == hist'[1]
       IN (/\ a.host = b.host
           /\ a.result.kind = "response"
           /\ a.result.value.status = "404"
           /\ \/ a.answer = "item" /\ b.start < a.end + CACHE_TTL
              \/ /\ a.lookups = 0
                 /\ a.host \in DOMAIN cache
                 /\ b.start < cache[a.host].expiry)
            => /\ b.lookups = 0
               /\ b.result = a.result]_vars

C3_Witness ==
  /\ deployment = "index"
  /\ hist # << >>
  /\ hist[1].host = HostUnknown
  /\ hist[1].lookups = 0
  /\ hist[1].result.kind = "response"
  /\ hist[1].result.value.status = "404"
  /\ HostUnknown \in DOMAIN cache
  /\ hist[1].start > cache[HostUnknown].expiry - CACHE_TTL
  /\ hist[1].start < cache[HostUnknown].expiry

(* C4: an invocation whose getItem threw returns the fixed 500 response    *)
(* and leaves the cache as it was; the next invocation for the same host   *)
(* issues a getItem, however soon it starts.                               *)
C4_LookupFailureNotCached ==
  [][/\ (hist' # << >> /\ hist'[1].answer = "error" /\ inv # Idle)
        => /\ hist'[1].result = Respond(LookupError)
           /\ hist'[1].result.value.status = "500"
           /\ cache' = cache
     /\ IndexPair
        => LET a == hist[1]
               b == hist'[1]
           IN (a.answer = "error" /\ a.host = b.host) => b.lookups = 1]_vars

C4_Witness ==
  /\ deployment = "index"
  /\ hist # << >>
  /\ hist[1].answer = "error"
  /\ inv # Idle
  /\ inv.host = hist[1].host
  /\ inv.start = hist[1].end

(* C5: a request the Origin Finalizer returns carries no x-custom-host     *)
(* header, whatever that header was in its input.                          *)
C5_CarrierNeverForwarded ==
  \A i \in 1..Len(hist) :
    (hist[i].fn = "origin" /\ hist[i].result.kind = "request")
      => "x-custom-host" \notin DOMAIN hist[i].result.value.headers

(* The viewer-request invocation resolved its host through the store and   *)
(* the origin-request invocation on its result has returned.               *)
ResolvedPipeline ==
  /\ Len(hist) = 2
  /\ hist[1].fn = "mapper"
  /\ hist[1].answer = "item"
  /\ hist[1].result.kind = "request"
  /\ hist[2].fn = "origin"

(* C6: when domain-mapper-edge resolved a request and origin-request-edge  *)
(* forwards it, the Host header forwarded is the value domain-mapper-edge  *)
(* put in x-custom-host for that request, the shared origin hostname.      *)
C6_HostEqualsCarrier ==
  (ResolvedPipeline /\ hist[2].result.kind = "request")
    => /\ HeaderValue(hist[2].result.value, "host")
            = HeaderValue(hist[1].result.value, "x-custom-host")
       /\ HeaderValue(hist[2].result.value, "host") = newDomain

C6_Witness ==
  /\ ResolvedPipeline
  /\ hist[2].result.kind = "request"
  /\ HostSent(hist[1]) = HostGalleryMixed
  /\ HeaderValue(hist[1].event.request, "x-custom-host") = HostEvil

(* The same request with the client's x-custom-host header replaced.       *)
WithCarrier(request, carrier) ==
  [request EXCEPT !.headers =
     IF carrier.present THEN SetHeader(@, "x-custom-host", carrier.list)
     ELSE DeleteHeader(@, "x-custom-host")]

(* What the two functions in sequence return for an event when getItem     *)
(* answers Item.                                                           *)
PipelineOutcome(event, Item) ==
  LET s == mapper_handler_sync(event)
      m == IF s.kind = "return" THEN s.result
           ELSE mapper_handler_onItem(s.request, s.host, Item)
  IN IF m.kind = "request" THEN origin_handler(Event(m.value)) ELSE m

(* C7: the request forwarded to the origin has the same Host and the same  *)
(* path whatever x-custom-host header the client sent with it: no client   *)
(* value of x-custom-host reaches the outgoing Host, on the resolved path  *)
(* and on the pass-through path alike.                                     *)
C7_CarrierNotAttackerSettable ==
  (/\ Len(hist) = 2
   /\ hist[1].fn = "mapper"
   /\ hist[2].fn = "origin"
   /\ hist[2].result.kind = "request")
    => \A c \in ClientCarriers :
         LET other == PipelineOutcome(
                        Event(WithCarrier(hist[1].event.request, c)), hist[1].item)
         IN /\ other.kind = "request"
            /\ HeaderValue(other.value, "host")
                 = HeaderValue(hist[2].result.value, "host")
            /\ other.value.uri = hist[2].result.value.uri

(* C8: a resolved request for the root path is rewritten to a path made of *)
(* the separator, one workspace segment and a trailing separator.          *)
C8_RootPathKeepsTrailingSeparator ==
  \A i \in 1..Len(hist) :
    LET s == hist[i]
    IN (/\ s.fn \in {"mapper", "index"}
        /\ s.answer = "item"
        /\ s.result.kind = "request"
        /\ s.event.request.uri = UriRoot)
         => LET u == s.result.value.uri
            IN /\ Len(u) >= 3
               /\ u[1] = "/"
               /\ u[Len(u)] = "/"
               /\ \A k \in 2..(Len(u) - 1) : u[k] # "/"

C10_ResolvedPathAndHost ==
  (/\ hist # << >>
   /\ hist[1].fn = "mapper"
   /\ hist[1].answer = "item"
   /\ hist[1].item.status = "active"
   /\ Truthy(hist[1].item.workspaceId))
    => LET p == hist[1].event.request.uri
           q == IF p # << >> /\ p[1] = "/" THEN p ELSE <<"/">> \o p
           w == hist[1].item.workspaceId
       IN (q # <<"/">> /\ ~workspaceMatch(q))
            => /\ hist[1].result.kind = "request"
               /\ Len(hist) = 2
                    => /\ hist[2].result.kind = "request"
                       /\ hist[2].result.value.uri = <<"/">> \o w \o q
                       /\ HeaderValue(hist[2].result.value, "host") = newDomain

C12_InactiveRecordAnsweredAsNoRecord ==
  [][(/\ inv.fn \in {"index", "mapper"}
      /\ inv' = Idle
      /\ hist'[1].answer = "item"
      /\ hist'[1].item \in InactiveItems)
       => /\ hist'[1].result.kind = "response"
          /\ hist'[1].result.value.status = "404"
          /\ IF inv.fn = "index"
             THEN LET o == index_handler_onItem(inv.request, inv.host, NoItem, cache, now)
                  IN /\ hist'[1].result = o.result
                     /\ cache' = o.cache
                     /\ cache'[inv.host] = CacheEntry(Null, now + CACHE_TTL)
             ELSE /\ hist'[1].result = mapper_handler_onItem(inv.request, inv.host, NoItem)
                  /\ cache' = cache]_vars

C12_Witness ==
  /\ hist # << >>
  /\ hist[1].fn = "index"
  /\ hist[1].answer = "item"
  /\ hist[1].item = StatusItem(WsOne, "pending_validation")
  /\ hist[1].wrote
  /\ hist[1].host \in DOMAIN cache
  /\ cache[hist[1].host].workspaceId = Null

(* C13: an event without a request, or a request without a Host header     *)
(* value, is answered with a fixed response of the client-error class (of  *)
(* the statuses a handler can give, 400 or 404), and the invocation issues *)
(* no getItem and does not write the cache.                                *)
C13_MalformedRequestClientError ==
  \A i \in 1..Len(hist) :
    LET s == hist[i]
    IN (s.fn \in {"index", "mapper"} /\ s.event \in MalformedEvents)
         => /\ s.result.kind = "response"
            /\ s.result.value.status \in {"400", "404"}
            /\ s.lookups = 0
            /\ ~s.wrote

(* C14: in src/index.mjs, when the record of a host was last changed at    *)
(* time t, an invocation for that host that starts at t + CACHE_TTL or     *)
(* later and is not answered a lookup failure returns what the record      *)
(* as it is since t gives: the rewrite to its workspace when it is an      *)
(* active mapping, the 404 when it is not.                                 *)
C14_BoundedStaleness ==
  (deployment = "index" /\ hist # << >> /\ HostGallery \in DOMAIN changedAt)
    => LET b == hist[1]
           Item == store[HostGallery]
       IN (/\ b.host = HostGallery
           /\ b.answer # "error"
           /\ b.start >= changedAt[HostGallery] + CACHE_TTL)
            => b.result =
                 IF Truthy(Item.workspaceId) /\ Item.status = "active"
                 THEN Forward(index_transform(b.event.request, Item.workspaceId))
                 ELSE Respond(index_createNotFoundResponse(b.host))

(* C15: in src/index.mjs an invocation for a custom host (not a platform   *)
(* host, not a ve.ai host) that returns without a getItem does so from a   *)
(* cache entry of the host whose expiry is later than the start of the     *)
(* invocation; an entry with expiry <= now, the instant expiry = now       *)
(* included, sends the invocation to getItem, and when getItem then fails  *)
(* the answer is the lookup error, not a decision from the entry.          *)
C15_ExpiredEntryIsAMiss ==
  (deployment = "index" /\ hist # << >>)
    => LET s == hist[1]
       IN (/\ s.host # Undefined
           /\ ~includes(s.host, AmplifyPattern)
           /\ ~endsWith(s.host, VeAiSuffix))
            => /\ s.lookups = 0 =>
                    s.host \in DOMAIN cache /\ cache[s.host].expiry > s.start
               /\ (/\ s.host \in DOMAIN cache
                   /\ cache[s.host].expiry <= s.start
                   /\ s.answer = "error")
                     => s.lookups = 1 /\ s.result = Respond(LookupError)

C15_Witness ==
  /\ hist # << >>
  /\ hist[1].fn = "index"
  /\ hist[1].answer = "error"
  /\ hist[1].host \in DOMAIN cache
  /\ cache[hist[1].host].expiry = hist[1].start

(* Two invocations of src/index.mjs in flight in one instance: the handler *)
(* is an async function over the module's cache object, so a second call   *)
(* can run while the first is at its await of getItem.                     *)
ConcurrentEvents ==
  { Event(ClientRequest(HostGallery, UriDashboard, NoCarrier)) }

IndexRequest2 ==
  /\ deployment = "index"
  /\ inv # Idle
  /\ inv2 = Idle
  /\ \E event \in ConcurrentEvents :
       LET r == index_handler_sync(event, cache, now)
       IN IF r.kind = "return"
          THEN /\ hist' = <<Summary("index", event, NormalizedHost(event),
                                 now, now, 0, "none", NoItem, FALSE, r.result)>>
               /\ inv2' = Idle
          ELSE /\ inv2' = Awaiting("index", event, r, now)
               /\ hist' = hist
  /\ UNCHANGED <<deployment, provenance, inv, store, changedAt, now, cache>>

GetItemServed2 ==
  /\ inv2.fn = "index"
  /\ ~inv2.served
  /\ inv2' = [inv2 EXCEPT !.served = TRUE, !.item = getItem(store, inv2.host),
                           !.readAt = now]
  /\ UNCHANGED <<deployment, provenance, inv, store, changedAt, now, cache, hist>>

IndexGetItemReturns2 ==
  /\ inv2.fn = "index"
  /\ inv2.served
  /\ LET Item == inv2.item
         o == index_handler_onItem(inv2.request, inv2.host, Item, cache, now)
     IN /\ cache' = o.cache
        /\ provenance' = Put(provenance, inv2.host, ReadBy(inv2, now))
        /\ hist' = <<Summary("index", inv2.event, inv2.host, inv2.start,
                          now, 1, "item", Item, o.cache # cache, o.result)>>
  /\ inv2' = Idle
  /\ UNCHANGED <<deployment, inv, store, changedAt, now>>

IndexGetItemThrows2 ==
  /\ inv2.fn = "index"
  /\ LET o == index_handler_onError(inv2.host, cache, now)
     IN /\ cache' = o.cache
        /\ hist' = <<Summary("index", inv2.event, inv2.host, inv2.start,
                          now, 1, "error", NoItem, o.cache # cache, o.result)>>
  /\ inv2' = Idle
  /\ UNCHANGED <<deployment, provenance, inv, store, changedAt, now>>

NextConcurrent ==
  \/ Next
  \/ IndexRequest2
  \/ GetItemServed2
  \/ IndexGetItemReturns2
  \/ IndexGetItemThrows2

SpecConcurrent == Init /\ [][NextConcurrent]_vars

(* The host ends an invocation that is at its await (the function timeout  *)
(* of the runtime): nothing of the rest of the handler runs.               *)
HostAborts ==
  /\ inv # Idle
  /\ inv' = Idle
  /\ UNCHANGED <<deployment, provenance, inv2, store, changedAt, now, cache, hist>>

(* The host ends an invocation of src/index.mjs after the assignment to    *)
(* cache[host] of line 109 or 120 and before the handler returns.          *)
HostAbortsAfterWrite ==
  /\ inv.fn = "index"
  /\ inv.served
  /\ cache' = index_handler_onItem(inv.request, inv.host, inv.item, cache, now).cache
  /\ provenance' = Put(provenance, inv.host, ReadBy(inv, now))
  /\ inv' = Idle
  /\ UNCHANGED <<deployment, inv2, store, changedAt, now, hist>>

NextAbort == Next \/ HostAborts \/ HostAbortsAfterWrite

SpecAbort == Init /\ [][NextAbort]_vars

(* The functions with the scheduling the runtime gives them: the clock     *)
(* runs, a handler that is invoked runs to its await or its return, and    *)
(* CloudFront hands a viewer-request result to the origin-request          *)
(* function.  Nothing makes the table answer a getItem: neither handler    *)
(* sets a timeout on the call or races it with a timer.                    *)
SpecLive ==
  /\ Init
  /\ [][Next]_vars
  /\ WF_vars(Tick)
  /\ WF_vars(IndexRequest)
  /\ WF_vars(ViewerRequest)
  /\ WF_vars(OriginRequest)

(* C16: every invocation of the resolver that is waiting for getItem       *)
(* eventually returns, whether or not the table answers.                   *)
C16_EveryInvocationReturns == (inv # Idle) ~> (inv = Idle)

(* C17: a request returned by an origin-request handler has the path and   *)
(* the origin of the request it was given and, the Host and x-custom-host  *)
(* headers aside, the same headers with the same values: none added, none  *)
(* removed, none changed; and when the request given has no x-custom-host  *)
(* header the request returned equals it.                                  *)
C17_FinalizerChangesOnlyHostAndCarrier ==
  \A i \in 1..Len(hist) :
    LET s == hist[i]
    IN (s.fn = "origin" /\ HasRequest(s.event) /\ s.result.kind = "request")
         => LET given == s.event.request
                returned == s.result.value
                Others(r) == DOMAIN r.headers \ {"host", "x-custom-host"}
            IN /\ returned.uri = given.uri
               /\ returned.origin = given.origin
               /\ Others(returned) = Others(given)
               /\ \A n \in Others(given) : returned.headers[n] = given.headers[n]
               /\ "x-custom-host" \notin DOMAIN given.headers => returned = given

(* C18: no invocation of an origin-request handler ends with an error      *)
(* thrown out of the handler, and an invocation given an event without a   *)
(* request returns the fixed 500 response, not a request.                  *)
C18_FinalizerErrorIsInternalError ==
  \A i \in 1..Len(hist) :
    LET s == hist[i]
    IN s.fn = "origin"
         => /\ s.result.kind # "throw"
            /\ ~HasRequest(s.event) => s.result = Respond(HandlerError)

(* C19: domain-mapper-edge issues a getItem for a host only when the cache *)
(* holds no fresh entry for it: not when the invocation completed last in  *)
(* this instance was answered by the table for the same normalized host    *)
(* less than CACHE_TTL ago (that answer, an item or none, is what a cache  *)
(* consulted first would hold).                                            *)
C19_MapperConsultsCacheBeforeStore ==
  [][(/\ deployment \in EdgeDeployments
      /\ inv = Idle
      /\ inv' # Idle
      /\ hist # << >>
      /\ hist[1].fn = "mapper"
      /\ hist[1].answer = "item")
       => ~(/\ inv'.host = hist[1].host
            /\ inv'.start < hist[1].end + CACHE_TTL)]_vars

(* C20: when domain-mapper-edge resolved the host to an active mapping and *)
(* the request has no uri to transform, the handler returns the request    *)
(* as it was given, not an error response.                                 *)
C20_UnexpectedPathPassesThrough ==
  \A i \in 1..Len(hist) :
    LET s == hist[i]
    IN (/\ s.fn = "mapper"
        /\ s.answer = "item"
        /\ s.item.exists /\ Truthy(s.item.workspaceId) /\ s.item.status = "active"
        /\ s.event.request.uri = Undefined)
         => s.result = Forward(s.event.request)

(* C21: when domain-mapper-edge resolved a request and origin-request-edge *)
(* forwards it, the path and the Host header forwarded are those that      *)
(* transformRequest of src/unnamed/part_001 gives for the same request     *)
(* and the same workspace id.                                              *)
C21_SingleStageEqualsPipeline ==
  (deployment = "edge" /\ ResolvedPipeline /\ hist[2].result.kind = "request")
    => LET single == transformRequest(hist[1].event.request, hist[1].item.workspaceId)
           staged == hist[2].result.value
       IN /\ staged.uri = single.uri
          /\ HeaderValue(staged, "host") = HeaderValue(single, "host")


(* C22: with several invocations in flight in one instance, a step that    *)
(* overwrites a cache entry writes data that was read from the store at    *)
(* the same time as or later than the data the entry held before.          *)
C22_OverwriteOnlyWithNewerRead ==
  [][\A h \in DOMAIN provenance :
       provenance'[h].readAt >= provenance[h].readAt]_vars


(* A cache entry with its workspace value (an identifier or null) and its  *)
(* expiry both set.                                                        *)
CompleteEntry(entry) ==
  /\ entry.workspaceId # Undefined
  /\ entry.workspaceId = Null \/ Truthy(entry.workspaceId)
  /\ entry.expiry \in Nat

(* C23: a step that ends an invocation of src/index.mjs, by its return or  *)
(* by the host aborting it, leaves the cache as it was or with exactly one *)
(* entry assigned, that of the invocation's host, complete; the store is   *)
(* not changed by it.                                                      *)
C23_AbortLeavesCacheWhole ==
  [][(inv # Idle /\ inv.fn = "index" /\ inv' = Idle)
       => /\ \/ cache' = cache
             \/ /\ inv.host \in DOMAIN cache'
                /\ CompleteEntry(cache'[inv.host])
                /\ cache' = Put(cache, inv.host, cache'[inv.host])
          /\ store' = store]_vars

(* An invocation was aborted after its cache write: an entry without any   *)
(* invocation having returned; and one for a host without a record.        *)
C23_Witness ==
  /\ hist = << >>
  /\ HostUnknown \in DOMAIN cache
  /\ cache[HostUnknown].workspaceId = Null


(* The not-configured response of a function for a host.                   *)
NotConfigured(fn, host) ==
  IF fn = "index" THEN index_createNotFoundResponse(host)
  ELSE mapper_createNotFoundResponse(host)

(* C24: every response a function returns in place of a request is the     *)
(* not-configured response of the lowercased Host value of its event (for  *)
(* the two resolvers only), or one of the two internal-error responses     *)
(* with their fixed bodies; nothing else of the request, the record or the *)
(* caught error is in it.                                                  *)
C24_ResponsesAreFixedOrOfHost ==
  \A i \in 1..Len(hist) :
    LET s == hist[i]
    IN s.result.kind = "response"
         => \/ s.result.value \in {HandlerError, LookupError}
            \/ /\ s.fn \in {"index", "mapper"}
               /\ NormalizedHost(s.event) # Undefined
               /\ s.result.value = NotConfigured(s.fn, NormalizedHost(s.event))

(* A lookup failure caught in src/index.mjs and answered with a response.  *)
C24_Witness ==
  /\ hist # << >>
  /\ hist[1].fn = "index"
  /\ hist[1].answer = "error"
  /\ hist[1].result.kind = "response"


(* C25: no step of an invocation of any of the functions (its start, the   *)
(* table's read for its getItem, its return) changes the store.            *)
C25_InvocationsLeaveStoreAlone ==
  [][store' = store]_vars

(* The table has read a record for the getItem of an invocation in flight. *)
C25_Witness ==
  /\ inv # Idle
  /\ inv.served
  /\ inv.item.exists


(* C26: the cache changes only in the step in which an invocation of       *)
(* src/index.mjs gets the answer of its getItem, only in the entry of that *)
(* invocation's host, and the entry written expires exactly CACHE_TTL      *)
(* after the time of the write; an invocation answered from the cache (or  *)
(* any other step) leaves every entry, its expiry included, as it was.     *)
C26_ExpiryIsWriteTimePlusTtl ==
  [][cache' # cache
       => /\ inv # Idle /\ inv.fn = "index" /\ inv.served /\ inv' = Idle
          /\ cache' = Put(cache, inv.host, cache'[inv.host])
          /\ cache'[inv.host].expiry = now + CACHE_TTL
          /\ now' = now]_vars

(* An invocation was answered from an entry written at 150000: the entry   *)
(* still expires at 450000.                                                *)
C26_Witness ==
  /\ hist # << >>
  /\ hist[1].fn = "index"
  /\ hist[1].lookups = 0
  /\ hist[1].start = 2 * TickMs
  /\ hist[1].host \in DOMAIN cache
  /\ cache[hist[1].host].expiry = TickMs + CACHE_TTL


(* The invocation of summary s returned a request that is not the one it   *)
(* was given: path, Host, carrier or another part of it was changed.       *)
Rewrote(s) ==
  /\ s.result.kind = "request"
  /\ s.result.value # s.event.request

(* C27: in both resolvers the steps come in the order normalize, resolve,  *)
(* transform: a getItem in flight has as its key the validated, lowercased *)
(* Host value of the event; an event that fails validation causes no       *)
(* lookup and no cache write; a returned request differs from the one      *)
(* received only when a workspace was resolved first (an active record     *)
(* answered, a live cache entry with a workspace, or the label of a ve.ai  *)
(* host); and an invocation issues at most one getItem and writes the      *)
(* cache only with the answer of that getItem.                             *)
C27_StepsInOrder ==
  /\ inv # Idle
       => /\ inv.host # Undefined
          /\ inv.host = NormalizedHost(inv.event)
  /\ \A i \in 1..Len(hist) :
       LET s == hist[i]
       IN s.fn \in {"index", "mapper"}
            => /\ s.lookups \in {0, 1}
               /\ NormalizedHost(s.event) = Undefined
                    => s.lookups = 0 /\ ~s.wrote /\ ~Rewrote(s)
               /\ s.wrote => s.lookups = 1 /\ s.answer = "item"
               /\ Rewrote(s)
                    => \/ /\ s.lookups = 1
                          /\ s.answer = "item"
                          /\ Truthy(s.item.workspaceId)
                          /\ s.item.status = "active"
                       \/ /\ s.fn = "index"
                          /\ s.lookups = 0
                          /\ endsWith(s.host, VeAiSuffix)
                       \/ /\ s.fn = "index"
                          /\ s.lookups = 0
                          /\ CacheHit(cache, s.host, s.start)
                          /\ Truthy(cache[s.host].workspaceId)

(* A getItem is in flight for a Host value that came in mixed case.        *)
C27_Witness ==
  /\ inv # Idle
  /\ inv.fn = "index"
  /\ HeaderValue(inv.event.request, "host") = HostGalleryMixed
  /\ inv.host = HostGallery


(* Two results are the same decision: both the same response, or both a    *)
(* request for the same path at the same origin.                           *)
SameDecision(a, b) ==
  /\ a.kind = b.kind
  /\ IF a.kind = "request"
     THEN a.value.uri = b.value.uri /\ a.value.origin = b.value.origin
     ELSE a.value = b.value

(* C28: a Host value and the same value in another case are treated alike  *)
(* by both resolvers: with the cache and the table as they are, the two    *)
(* requests either both return at once with the same decision or both ask  *)
(* the table under the same (lowercased) key and get the same decision     *)
(* and, in src/index.mjs, the same cache from its answer; cache keys are   *)
(* lowercased, so the two share one entry and the second of them within    *)
(* the entry's life is a cache hit.                                        *)
C28_HostCaseInsensitive ==
  /\ \A h \in DOMAIN cache : h = toLowerCase(h)
  /\ \A u \in {UriDashboard, UriRoot} :
       LET lower == Event(ClientRequest(HostGallery, u, NoCarrier))
           mixed == Event(ClientRequest(HostGalleryMixed, u, NoCarrier))
           a == index_handler_sync(lower, cache, now)
           b == index_handler_sync(mixed, cache, now)
           ma == mapper_handler_sync(lower)
           mb == mapper_handler_sync(mixed)
           Item == getItem(store, HostGallery)
       IN /\ a.kind = b.kind
          /\ CacheHit(cache, HostGallery, now) => b.kind = "return"
          /\ a.kind = "return" => SameDecision(a.result, b.result)
          /\ a.kind = "await"
               => /\ a.host = b.host
                  /\ LET oa == index_handler_onItem(a.request, a.host, Item, cache, now)
                         ob == index_handler_onItem(b.request, b.host, Item, cache, now)
                     IN SameDecision(oa.result, ob.result) /\ oa.cache = ob.cache
          /\ ma.kind = "await" /\ mb.kind = "await"
          /\ ma.host = mb.host
          /\ SameDecision(mapper_handler_onItem(ma.request, ma.host, Item),
                          mapper_handler_onItem(mb.request, mb.host, Item))
  /\ \A i \in 1..Len(hist) :
       (hist[i].fn = "index" /\ HostSent(hist[i]) = HostGalleryMixed)
         => /\ hist[i].host = HostGallery
            /\ hist[i].wrote => HostGallery \in DOMAIN cache

(* The mixed-case request was answered from the entry kept under the       *)
(* lowercased name.                                                        *)
C28_Witness ==
  /\ hist # << >>
  /\ hist[1].fn = "index"
  /\ HostSent(hist[1]) = HostGalleryMixed
  /\ hist[1].lookups = 0
  /\ hist[1].result.kind = "request"
  /\ DOMAIN cache = {HostGallery}


(* C29: a request that domain-mapper-edge returns after getItem answered   *)
(* with an active record carries x-debug-workspace with the record's       *)
(* workspaceId and x-debug-original-uri with the uri of the request as it  *)
(* came; and when the origin-request function (origin-request-edge or the  *)
(* handler of part_000) forwards that request, both headers are in it as   *)
(* the mapper set them.                                                    *)
C29_DebugHeadersReachOrigin ==
  /\ \A i \in 1..Len(hist) :
       LET s == hist[i]
       IN (s.fn = "mapper" /\ s.answer = "item" /\ s.result.kind = "request")
            => /\ HeaderValue(s.result.value, "x-debug-workspace") = s.item.workspaceId
               /\ HeaderValue(s.result.value, "x-debug-original-uri") = s.event.request.uri
  /\ (ResolvedPipeline /\ hist[2].result.kind = "request")
       => \A n \in {"x-debug-workspace", "x-debug-original-uri"} :
            /\ n \in DOMAIN hist[2].result.value.headers
            /\ hist[2].result.value.headers[n] = hist[1].result.value.headers[n]

(* The part_000 handler forwarded a resolved request for the root path,    *)
(* the case in which it adds a header of its own.                          *)
C29_Witness ==
  /\ deployment = "part_000"
  /\ ResolvedPipeline
  /\ hist[1].event.request.uri = UriRoot
  /\ hist[2].result.kind = "request"
  /\ HeaderValue(hist[2].result.value, "x-debug-workspace") = WsOne


(* The part of a host name before its first dot.                           *)
FirstLabel(host) ==
  LET dot == CHOOSE k \in 1..Len(host) :
               host[k] = "." /\ \A j \in 1..(k - 1) : host[j] # "."
  IN SubSeq(host, 1, dot - 1)

VeAiHosts == { HostVeAi, HostVeAiUpper }

(* C30: src/index.mjs returns, for a request whose lowercased Host ends    *)
(* with ve.ai, the request with path "/" + first label of the host +       *)
(* original path, Host set to the shared origin and the custom origin set, *)
(* at once: whatever the cache holds it issues no getItem, and the         *)
(* invocation leaves the cache as it was.                                  *)
C30_VeAiHostNeedsNoLookup ==
  /\ \A h \in VeAiHosts, u \in {UriDashboard, UriRoot} :
       LET request == ClientRequest(h, u, NoCarrier)
           r == index_handler_sync(Event(request), cache, now)
       IN /\ r.kind = "return"
          /\ r.result.kind = "request"
          /\ r.result.value.uri = <<"/">> \o FirstLabel(toLowerCase(h)) \o u
          /\ HeaderValue(r.result.value, "host") = newDomain
          /\ r.result.value.origin = CustomOrigin(newDomain)
          /\ r = index_handler_sync(Event(request), << >>, now)
  /\ \A i \in 1..Len(hist) :
       LET s == hist[i]
       IN (s.fn = "index" /\ s.host # Undefined /\ endsWith(s.host, VeAiSuffix))
            => /\ s.lookups = 0
               /\ ~s.wrote
               /\ s.host \notin DOMAIN cache
               /\ s.result.kind = "request"
               /\ s.result.value.uri =
                    <<"/">> \o FirstLabel(s.host) \o s.event.request.uri
               /\ HeaderValue(s.result.value, "host") = newDomain

(* A ve.ai request was answered while the cache held entries of other      *)
(* hosts.                                                                  *)
C30_Witness ==
  /\ hist # << >>
  /\ hist[1].fn = "index"
  /\ hist[1].host = HostVeAi
  /\ hist[1].result.kind = "request"
  /\ hist[1].result.value.uri = <<"/">> \o WsOne \o UriDashboard
  /\ cache # << >>


(* The first segment of a path, with its leading separator.                *)
FirstSegment(uri) ==
  IF \E k \in 2..Len(uri) : uri[k] = "/"
  THEN SubSeq(uri, 1, (CHOOSE k \in 2..Len(uri) :
                         uri[k] = "/" /\ \A j \in 2..(k - 1) : uri[j] # "/") - 1)
  ELSE uri

(* The invocation of summary s is one in which domain-mapper-edge          *)
(* prepended a segment to the path for an active mapping.                  *)
Prepended(s) ==
  /\ s.fn = "mapper"
  /\ s.answer = "item"
  /\ s.result.kind = "request"
  /\ s.item.status = "active"
  /\ ~workspaceMatch(IF startsWith(s.event.request.uri, <<"/">>)
                     THEN s.event.request.uri
                     ELSE <<"/">> \o s.event.request.uri)

(* C31: when domain-mapper-edge prepended a segment for an active mapping  *)
(* to workspace id w, no host of the table with an active mapping to a     *)
(* different workspace id gets, for the same request path, a path with the *)
(* same first segment.                                                     *)
C31_DistinctWorkspacesDistinctSegments ==
  (hist # << >> /\ Prepended(hist[1]))
    => \A h \in DOMAIN store :
         (/\ store[h].exists
          /\ store[h].status = "active"
          /\ Truthy(store[h].workspaceId)
          /\ store[h].workspaceId # hist[1].item.workspaceId)
           => LET request == ClientRequest(h, hist[1].event.request.uri, NoCarrier)
                  other == mapper_handler_onItem(request, h, store[h])
              IN /\ other.kind = "request"
                 /\ FirstSegment(other.value.uri)
                      # FirstSegment(hist[1].result.value.uri)


(* The segment domain-mapper-edge prepends for workspace id w.             *)
SegmentOf(w) == WorkspacePrefix \o Template(At(split(w, "-"), 1))

(* C32: every request domain-mapper-edge returns after getItem answered    *)
(* with an active mapping to workspace id w has a path whose first segment *)
(* is the segment of w, whatever path the client sent.                     *)
C32_ForwardedPathUnderOwnSegment ==
  \A i \in 1..Len(hist) :
    LET s == hist[i]
    IN (/\ s.fn = "mapper"
        /\ s.answer = "item"
        /\ s.result.kind = "request")
         => FirstSegment(s.result.value.uri) = SegmentOf(s.item.workspaceId)


(* C33: in src/index.mjs and in the handler of part_001, for every host    *)
(* with a fresh cache entry that holds a workspace id and every request    *)
(* path, the request returned from the cache is the request the handler    *)
(* returns when getItem answers with an active record of that workspace    *)
(* id: same path, Host, origin and other headers; and the last invocation, *)
(* when it was answered from the cache, returned what the record the       *)
(* entry was written from gives.                                           *)
C33_HitEqualsLookup ==
  /\ \A h \in DOMAIN cache :
       (CacheHit(cache, h, now) /\ Truthy(cache[h].workspaceId))
         => \A u \in ClientUris :
              LET request == ClientRequest(h, u, NoCarrier)
                  Item == ActiveItem(cache[h].workspaceId)
                  hit == index_handler_sync(Event(request), cache, now)
                  hit1 == part001_handler_sync(Event(request), cache, now)
              IN /\ hit.kind = "return"
                 /\ hit.result.kind = "request"
                 /\ hit.result = index_handler_onItem(request, h, Item, cache, now).result
                 /\ hit1.kind = "return"
                 /\ hit1.result.kind = "request"
                 /\ hit1.result = part001_handler_onItem(request, h, Item, cache, now).result
  /\ \A i \in 1..Len(hist) :
       LET s == hist[i]
       IN (/\ s.fn = "index" /\ s.lookups = 0 /\ s.result.kind = "request"
           /\ s.host \in DOMAIN cache)
            => /\ s.host \in DOMAIN provenance
               /\ s.result = index_handler_onItem(s.event.request, s.host,
                               provenance[s.host].item, cache, now).result

(* A request for the root path was answered from the cache.                *)
C33_Witness ==
  /\ hist # << >>
  /\ hist[1].fn = "index"
  /\ hist[1].lookups = 0
  /\ hist[1].host = HostGallery
  /\ hist[1].event.request.uri = UriRoot
  /\ hist[1].result.kind = "request"


(* C34: every cache entry is kept under a lowercased host name and was     *)
(* written when a getItem for that host was answered: its expiry is the    *)
(* time of that answer plus CACHE_TTL; an entry with a workspace id comes  *)
(* from an answer with an active record of that workspace id, an entry     *)
(* with null from an answer without an active record; the record is the    *)
(* one the table holds for the host; a getItem that failed left no entry.  *)
(* The writes of part_001 (lines 95-125) give the same entries.            *)
C34_CacheSoundness ==
  /\ DOMAIN cache = DOMAIN provenance
  /\ \A h \in DOMAIN cache :
       LET entry == cache[h]
           from == provenance[h]
           request == ClientRequest(h, UriDashboard, NoCarrier)
       IN /\ h = toLowerCase(h)
          /\ entry.expiry = from.writtenAt + CACHE_TTL
          /\ from.readAt <= from.writtenAt
          /\ from.item = getItem(store, h)
          /\ Truthy(entry.workspaceId)
               => /\ from.item.exists
                  /\ from.item.status = "active"
                  /\ from.item.workspaceId = entry.workspaceId
          /\ ~Truthy(entry.workspaceId)
               => /\ entry.workspaceId = Null
                  /\ ~(/\ from.item.exists
                       /\ Truthy(from.item.workspaceId)
                       /\ from.item.status = "active")
          /\ entry = part001_handler_onItem(request, h, from.item, << >>,
                                            from.writtenAt).cache[h]
  /\ \A i \in 1..Len(hist) :
       (hist[i].fn = "index" /\ hist[i].answer = "error")
         => ~hist[i].wrote

(* The cache holds a positive and a negative entry.                        *)
C34_Witness ==
  /\ HostGallery \in DOMAIN cache
  /\ HostUnknown \in DOMAIN cache
  /\ cache[HostGallery].workspaceId = WsOne
  /\ cache[HostUnknown].workspaceId = Null
  /\ cache[HostGallery].expiry # cache[HostUnknown].expiry


(* C35: two invocations of src/index.mjs in flight in one instance for the *)
(* same host never both have a getItem issued: the second one to start     *)
(* does not ask the table while the first one's getItem is outstanding.    *)
C35_OneLookupPerHostInFlight ==
  ~(/\ inv.fn = "index"
    /\ inv2.fn = "index"
    /\ inv.host = inv2.host)


(* C36: when domain-mapper-edge returned a request after getItem answered  *)
(* with a record, the handler applied to that returned request, with the   *)
(* same record answered, returns a request with the same path, the same    *)
(* x-custom-host, the same x-debug-workspace and the same                  *)
(* x-debug-original-uri.                                                   *)
C36_RedeliveryIdempotent ==
  \A i \in 1..Len(hist) :
    LET s == hist[i]
    IN (s.fn = "mapper" /\ s.answer = "item" /\ s.result.kind = "request")
         => LET first == s.result.value
                start == mapper_handler_sync(Event(first))
            IN /\ start.kind = "await"
               /\ start.host = s.host
               /\ LET again == mapper_handler_onItem(start.request, start.host, s.item)
                  IN /\ again.kind = "request"
                     /\ again.value.uri = first.uri
                     /\ \A n \in {"x-custom-host", "x-debug-workspace",
                                  "x-debug-original-uri"} :
                          HeaderValue(again.value, n) = HeaderValue(first, n)


(* host is the domain, or a name under it.                                 *)
IsDomainOrSubdomain(host, domain) ==
  host = domain \/ endsWith(host, <<".">> \o domain)

(* C37: a request that a resolver returns without a getItem and without a  *)
(* cache entry of its host has a host that is amplifyapp.com or a name     *)
(* under it (in src/index.mjs: or ve.ai or a name under it); a host that   *)
(* only contains amplifyapp.com, such as amplifyapp.com.attacker.net, is   *)
(* not returned that way.                                                  *)
C37_BypassOnlyForPlatformDomain ==
  \A i \in 1..Len(hist) :
    LET s == hist[i]
    IN (/\ s.fn \in {"index", "mapper"}
        /\ s.host # Undefined
        /\ s.lookups = 0
        /\ s.result.kind = "request"
        /\ s.host \notin DOMAIN cache)
         => \/ IsDomainOrSubdomain(s.host, AmplifyPattern)
            \/ s.fn = "index" /\ IsDomainOrSubdomain(s.host, VeAiSuffix)

=============================================================================
